---- MODULE Spec2Model ----
(***************************************************************************)
(* Order-picking client (vanilla JS front end): the session state object,  *)
(* its asynchronous handlers and the order/line reconciliation logic.      *)
(*                                                                         *)
(* The program is single-threaded and event driven.  Every action below is *)
(* one run-to-completion step of the event loop: a user event, a timer     *)
(* callback, or the continuation of an async function after the network    *)
(* response it awaited.  Requests in flight are held in the bag            *)
(* `inflight`; responses may arrive in any order.                          *)
(*                                                                         *)
(* Quantities are integers counting ticks of 10^-7 units.                  *)
(***************************************************************************)
EXTENDS Integers, Sequences, FiniteSets, Bags, TLC

\* ------------------------------------------------------------------ bounds
\* requests that may be in flight at once
MaxInflight == 2
\* auto-close timeouts that may be pending at once
MaxCloseTimers == 1
\* plus taps counted on one line
MaxTaps == 3

\* --------------------------------------------------------------- constants
\* null for state.activeOrderId and state.pollTimer
NULL == 0
\* state.config before it is loaded
NoConfig == "null"
\* state.orderDetail: null is the empty tuple, a loaded detail d is <<d>>
NoDetail == <<>>
\* the decimals a quantity is carried with: a tick is 10^-7
TickDigits == 7
\* one unit of quantity, in ticks
Unit == 10 ^ TickDigits
\* EPS = 1e-9 is below one tick: for a tick count x, x <= EPS iff x <= 0
EPS == 0
\* the 1e-6 tolerance of isLineDone / isOrderDone, in ticks
DoneTolerance == 10
\* the 1e-6 below which computeDelta reports no change, in ticks
DeltaTolerance == 10
\* a field that is absent (undefined or null); quantities are never negative
Missing == -1

\* ------------------------------------------------- the backend's data set
\* Three data sets a backend may serve.  The small one holds order 1 with one
\* line, and a read always returns snapshot 0; the rich one holds order 1
\* with two lines and order 2 with one, and a read returns either snapshot;
\* the churning one holds order 1 with two lines, either of which the
\* upstream system may remove while it is being picked.  The flaky backend
\* serves the small data set and may answer the config read with an error
\* that carries a JSON body.  The shelf holds order 1 with three lines, which
\* the backend lists in another order than their sort indexes.  The bulk
\* data set holds order 1 with one line of which 3 are ordered.
Small == "small"
Rich == "rich"
Churn == "churn"
Flaky == "flaky"
Shelf == "shelf"
Bulk == "bulk"
Orders(u) == IF u = Rich THEN <<1, 2>> ELSE <<1>>
LinesOf(u, orderId) ==
    IF u \in {Small, Flaky} THEN <<11>>
    ELSE IF u = Shelf THEN <<11, 12, 13>>
    ELSE IF u = Bulk THEN <<14>>
    ELSE (IF orderId = 1 THEN <<11, 12>> ELSE <<21>>)
OrderOfLine(lineId) == lineId \div 10
SortIndexOf(lineId) == IF lineId = 11 THEN 2 ELSE IF lineId = 13 THEN 3 ELSE 1
\* snapshots of the backend's data a response may carry
Versions == {0, 1}
\* the snapshots a list or detail read, the open notification and the
\* explicit completion may answer with
ReadVersions(u) == IF u = Rich THEN Versions ELSE {0}
OpenVersions(u) == IF u = Rich THEN Versions ELSE {0}
\* whether a patch response may carry its line as removed
RemovedFlags(u) == IF u = Churn THEN BOOLEAN ELSE {FALSE}
CompleteVersions(u) == IF u = Rich THEN Versions ELSE {1}

QtyOrderedOf(lineId) == IF lineId = 14 THEN 3 * Unit ELSE Unit

Line(lineId, collected, removed) ==
    [id |-> lineId, qty_ordered |-> QtyOrderedOf(lineId), qty_collected |-> collected,
     is_removed |-> removed, sort_index |-> SortIndexOf(lineId)]

\* line `lineId` as the backend holds it in snapshot v
ServerLine(lineId, v) ==
    IF v = 1 /\ lineId # 12 THEN Line(lineId, Unit, FALSE) ELSE Line(lineId, 0, FALSE)

\* order `orderId` as the backend holds it in snapshot v (the aggregates and
\* the column are derived by the backend)
ServerOrder(orderId, v) ==
    IF v = 0
    THEN [id |-> orderId, total_qty |-> 2 * Unit, collected_qty |-> 0,
          progress_pct |-> 0, column |-> "picking"]
    ELSE [id |-> orderId, total_qty |-> 2 * Unit, collected_qty |-> 2 * Unit,
          progress_pct |-> 100, column |-> "picked"]

ServerLines(u, orderId, v) ==
    [i \in 1..Len(LinesOf(u, orderId)) |-> ServerLine(LinesOf(u, orderId)[i], v)]

\* GET /api/orders/{id}
DetailResponse(u, orderId, v) ==
    [order |-> ServerOrder(orderId, v), lines |-> ServerLines(u, orderId, v)]

\* GET /api/orders
ListResponse(u, v) ==
    [k \in 1..Len(Orders(u)) |-> DetailResponse(u, Orders(u)[k], IF k = 1 THEN v ELSE 0)]

\* ---------------------------------------------------------------- helpers
Min(a, b) == IF a < b THEN a ELSE b
Max(a, b) == IF a > b THEN a ELSE b

\* Array.prototype.findIndex: the first index satisfying Test, 0 for -1
FindIndex(seq, Test(_)) ==
    IF \E i \in 1..Len(seq) : Test(seq[i])
    THEN CHOOSE i \in 1..Len(seq) :
             Test(seq[i]) /\ \A j \in 1..(i - 1) : ~Test(seq[j])
    ELSE 0

\* ------------------------------------------------------ quantity arithmetic
Pow10(n) == 10 ^ n

\* the number of leading zeros of the 7-digit fractional part f (0 < f < Unit)
RECURSIVE LeadingZeros(_)
LeadingZeros(f) == IF f * 10 >= Unit THEN 0 ELSE 1 + LeadingZeros(f * 10)

inferStep(qtyOrdered) ==
    IF qtyOrdered <= 0 THEN Unit
    ELSE IF qtyOrdered % Unit = 0 THEN Unit
    ELSE Unit \div Pow10(LeadingZeros(qtyOrdered % Unit) + 1)

\* the number of digits String(x) shows after the decimal point, for the
\* fractional part f of x in ticks (0 <= f < Unit): the digits of f as far
\* as its last non-zero one
RECURSIVE FractionDigits(_)
FractionDigits(f) ==
    IF f = 0 THEN 0
    ELSE IF f % 10 # 0 THEN TickDigits
    ELSE FractionDigits(f \div 10) - 1

\* the number of decimals of a step given in ticks; 1e-7, which String
\* writes with an exponent, has 7 either way
stepDecimals(step) == FractionDigits(step % Unit)

\* Number.prototype.toFixed(dec) on a non-negative tick count: the nearest
\* multiple of 10^-dec, the larger one on a tie
ToFixed(v, dec) ==
    LET q == Unit \div Pow10(dec)
    IN  ((2 * v + q) \div (2 * q)) * q

\* a clampAndRound that takes the step itself
clampAndRoundStepping(value, max, step) ==
    LET v == Max(0, Min(value + step, max))
    IN  ToFixed(v, stepDecimals(step))

clampAndRound(value, max, step) ==
    LET v == Max(0, Min(value, max))
    IN  ToFixed(v, stepDecimals(step))

\* Number(x || 0)
Num(x) == IF x = Missing THEN 0 ELSE x

\* a line is done only when everything ordered has been collected
isLineDoneExact(line) ==
    LET ordered == Num(line.qty_ordered)
        collected == Num(line.qty_collected)
    IN  IF ordered <= EPS THEN TRUE
        ELSE collected >= ordered

isLineDone(line) ==
    LET ordered == Num(line.qty_ordered)
        collected == Num(line.qty_collected)
    IN  IF ordered <= EPS THEN TRUE
        ELSE collected >= ordered - DoneTolerance

\* an order without quantity counts as done, as a line does
isOrderDoneEmptyIsDone(order) ==
    LET total == Num(order.total_qty)
        collected == Num(order.collected_qty)
    IN  IF total <= EPS THEN TRUE
        ELSE collected >= total - DoneTolerance

isOrderDone(order) ==
    LET total == Num(order.total_qty)
        collected == Num(order.collected_qty)
    IN  IF total <= EPS THEN FALSE
        ELSE collected >= total - DoneTolerance

\* the board columns
Columns == {"picked", "picking", "not_started"}

getOrderColumn(order) ==
    IF order.column \in Columns THEN order.column ELSE "not_started"

Abs(x) == IF x < 0 THEN -x ELSE x

\* a delta that is reported however small it is
computeDeltaNoTolerance(line) ==
    IF line.baseline_qty_ordered = Missing THEN <<>>
    ELSE IF line.is_added THEN <<Num(line.qty_ordered)>>
    ELSE LET base == line.baseline_qty_ordered
             cur == Num(line.qty_ordered)
         IN  IF base = cur THEN <<>> ELSE <<cur - base>>

\* null is the empty tuple, a delta d is <<d>>
computeDelta(line) ==
    IF line.baseline_qty_ordered = Missing THEN <<>>
    ELSE IF line.is_added THEN <<Num(line.qty_ordered)>>
    ELSE LET base == line.baseline_qty_ordered
             cur == Num(line.qty_ordered)
         IN  IF Abs(base - cur) < DeltaTolerance THEN <<>> ELSE <<cur - base>>

\* ------------------------------------------------------------------- state
VARIABLES
    state,        \* the `state` object: config, orders, orderDetail, activeOrderId, pollTimer
    dom,          \* what the handlers read back from the document
    timers,       \* the interval timers that are live (their ids)
    closeTimers,  \* pending auto-close timeouts (setTimeout of patchLine): for each, in
                  \* the order they will fire, the orderId of the call that set it
    inflight,     \* bag of requests awaiting their response
    lastOp,       \* history: the handler that ran last and how it ended
    call          \* a pure helper called on its own: its name, argument and result;
                  \* or the plus taps made on a line, counted

vars == <<state, dom, timers, closeTimers, inflight, lastOp, call>>

\* no helper has been called on its own
NoCall == [fn |-> "none", arg |-> <<>>, result |-> <<>>]

\* a request in flight, with the position of the async function awaiting it
Task(kind, origin, orderId, lineId, qty) ==
    [kind |-> kind, origin |-> origin, orderId |-> orderId, lineId |-> lineId, qty |-> qty]

Op(name, status, orderId, lineId, completed) ==
    [name |-> name, status |-> status, orderId |-> orderId, lineId |-> lineId,
     completed |-> completed]

\* the three ways a response can end: 2xx, 401, any other failure
Outcomes == {"ok", "unauthorized", "error"}

World == [state |-> state, dom |-> dom, timers |-> timers]

Commit(w) == state' = w.state /\ dom' = w.dom /\ timers' = w.timers

Room == BagCardinality(inflight) < MaxInflight

Issue(task) == inflight (+) SetToBag({task})
Settle(task) == inflight (-) SetToBag({task})
\* this step sends a request of the given kind / receives the answer to one
Issued(kind) ==
    \E t \in BagToSet(inflight') :
        t.kind = kind /\ CopiesIn(t, inflight') > CopiesIn(t, inflight)
Answered(kind) ==
    \E t \in BagToSet(inflight) :
        t.kind = kind /\ CopiesIn(t, inflight') < CopiesIn(t, inflight)

\* the board list loads (GET /api/orders) a bag of requests holds
BoardLoads(b) == BagCardinality([t \in {x \in BagToSet(b) : x.kind = "orders"} |-> b[t]])

\* -------------------------------------------------------------- DOM lists
RemoveAt(seq, i) == [k \in 1..(Len(seq) - 1) |-> IF k < i THEN seq[k] ELSE seq[k + 1]]

\* parent.insertBefore(child i, reference j): inserting a node before itself
\* leaves the list as it is
InsertBefore(seq, i, j) ==
    IF i = j THEN seq
    ELSE LET rest == RemoveAt(seq, i)
             at == IF j > i THEN j - 1 ELSE j
         IN  [k \in 1..Len(seq) |->
                 IF k < at THEN rest[k] ELSE IF k = at THEN seq[i] ELSE rest[k - 1]]

AppendChild(seq, i) == Append(RemoveAt(seq, i), seq[i])

\* stable sort by sort_index ascending (Array.prototype.sort with bySort)
RECURSIVE SortBySortIndex(_)
SortBySortIndex(seq) ==
    IF Len(seq) <= 1 THEN seq
    ELSE LET sorted == SortBySortIndex(SubSeq(seq, 1, Len(seq) - 1))
             x == seq[Len(seq)]
             pos == Cardinality({k \in 1..Len(sorted) :
                                     Num(sorted[k].sort_index) <= Num(x.sort_index)})
         IN  SubSeq(sorted, 1, pos) \o <<x>> \o SubSeq(sorted, pos + 1, Len(sorted))

bucket(line) ==
    IF line.is_removed THEN "removed"
    ELSE IF isLineDone(line) THEN "complete" ELSE "incomplete"

\* the element renderLine builds: its dataset, whether it carries the
\* stepper controls, and the line its click handlers closed over
renderLine(line) ==
    [lineId |-> line.id, sortIndex |-> Num(line.sort_index),
     done |-> isLineDone(line), group |-> bucket(line),
     controls |-> ~line.is_removed, ordered |-> line.qty_ordered]

\* the three groups in the order they are laid out
GroupRank(group) ==
    IF group = "incomplete" THEN 1 ELSE IF group = "complete" THEN 2 ELSE 3

\* a full render that appends the groups as the response lists their lines
renderLinesUnsorted(lines) ==
    LET incomplete == SelectSeq(lines, LAMBDA l : bucket(l) = "incomplete")
        complete == SelectSeq(lines, LAMBDA l : bucket(l) = "complete")
        removed == SelectSeq(lines, LAMBDA l : bucket(l) = "removed")
        all == incomplete \o complete \o removed
    IN  [k \in 1..Len(all) |-> renderLine(all[k])]

\* renderOrderDetail: the children of orderLinesEl it builds
renderLines(lines) ==
    LET incomplete == SelectSeq(lines, LAMBDA l : bucket(l) = "incomplete")
        complete == SelectSeq(lines, LAMBDA l : bucket(l) = "complete")
        removed == SelectSeq(lines, LAMBDA l : bucket(l) = "removed")
        all == SortBySortIndex(incomplete) \o SortBySortIndex(complete)
                   \o SortBySortIndex(removed)
    IN  [k \in 1..Len(all) |-> renderLine(all[k])]

moveLineToCompleteEnd(els, i) ==
    LET r == FindIndex(els, LAMBDA e : e.group = "removed")
    IN  IF r > 0 THEN InsertBefore(els, i, r) ELSE AppendChild(els, i)

moveLineToIncompletePosition(els, i) ==
    LET others == {k \in 1..Len(els) : k # i /\ els[k].group = "incomplete"}
        after == {k \in others : els[k].sortIndex > els[i].sortIndex}
        firstComplete == FindIndex(els, LAMBDA e : e.group = "complete")
        firstRemoved == FindIndex(els, LAMBDA e : e.group = "removed")
    IN  IF after # {}
        THEN InsertBefore(els, i, CHOOSE k \in after : \A m \in after : k <= m)
        ELSE IF firstComplete > 0 THEN InsertBefore(els, i, firstComplete)
        ELSE IF firstRemoved > 0 THEN InsertBefore(els, i, firstRemoved)
        ELSE AppendChild(els, i)

moveLineToGroupEnd(els, i, group) ==
    IF group = "removed" THEN AppendChild(els, i)
    ELSE IF group = "complete" THEN moveLineToCompleteEnd(els, i)
    ELSE moveLineToIncompletePosition(els, i)

updateLineUI(els, line) ==
    LET i == FindIndex(els, LAMBDA e : e.lineId = line.id)
    IN  IF i = 0 THEN els
        ELSE LET wasDone == els[i].done
                 nowDone == isLineDone(line)
                 prevGroup == els[i].group
                 nextGroup == bucket(line)
                 upd == [els EXCEPT ![i] = [@ EXCEPT !.done = nowDone,
                                                     !.sortIndex = Num(line.sort_index),
                                                     !.group = nextGroup]]
             IN  IF ~wasDone /\ nowDone THEN moveLineToCompleteEnd(upd, i)
                 ELSE IF wasDone /\ ~nowDone THEN moveLineToIncompletePosition(upd, i)
                 ELSE IF prevGroup # nextGroup THEN moveLineToGroupEnd(upd, i, nextGroup)
                 ELSE upd

getLineQtyFromState(s, lineId) ==
    IF s.orderDetail = NoDetail THEN 0
    ELSE LET lines == s.orderDetail[1].lines
             i == FindIndex(lines, LAMBDA l : l.id = lineId)
         IN  IF i = 0 THEN 0 ELSE lines[i].qty_collected

\* the ids of the cards renderBoard builds from state.orders
renderBoard(w) ==
    [w EXCEPT !.dom.boardCards = {w.state.orders[k].order.id : k \in 1..Len(w.state.orders)}]

\* ------------------------------------------------------------ polling
stopPolling(w) ==
    IF w.state.pollTimer # NULL
    THEN [w EXCEPT !.timers = @ \ {w.state.pollTimer}, !.state.pollTimer = NULL]
    ELSE w

\* setInterval hands out an id no live timer has
NewTimerId(live) == IF live = {} THEN 1 ELSE 1 + CHOOSE m \in live : \A k \in live : k <= m

\* startPolling without its leading stopPolling(): the previous interval
\* is left running
startPollingNoStop(w) ==
    LET id == NewTimerId(w.timers)
    IN  [w EXCEPT !.timers = @ \cup {id}, !.state.pollTimer = id]

startPolling(w) ==
    LET w1 == stopPolling(w)
        id == NewTimerId(w1.timers)
    IN  [w1 EXCEPT !.timers = @ \cup {id}, !.state.pollTimer = id]

\* ------------------------------------------------------------ lifecycle
logout(w) ==
    LET w1 == [w EXCEPT !.state.config = NoConfig,
                        !.state.orders = <<>>,
                        !.state.orderDetail = NoDetail,
                        !.state.activeOrderId = NULL]
        w2 == stopPolling(w1)
    IN  [w2 EXCEPT !.dom.appView = FALSE, !.dom.orderView = FALSE, !.dom.loginView = TRUE]

\* closeOrderView without its trailing startPolling()
closeOrderViewNoPolling(w) ==
    [w EXCEPT !.state.activeOrderId = NULL,
              !.state.orderDetail = NoDetail,
              !.dom.orderView = FALSE,
              !.dom.appView = TRUE,
              !.dom.completeOverlay = FALSE,
              !.dom.completeDisabled = FALSE]

closeOrderView(w) ==
    LET w1 == [w EXCEPT !.state.activeOrderId = NULL,
                        !.state.orderDetail = NoDetail,
                        !.dom.orderView = FALSE,
                        !.dom.appView = TRUE,
                        !.dom.completeOverlay = FALSE,
                        !.dom.completeDisabled = FALSE]
    IN  startPolling(w1)

\* the page as the script leaves it when it has run: logout() at the end
InitWorld ==
    [state |-> [config |-> NoConfig, orders |-> <<>>, orderDetail |-> NoDetail,
                activeOrderId |-> NULL, pollTimer |-> NULL],
     dom |-> [loginView |-> TRUE, appView |-> FALSE, orderView |-> FALSE,
              completeOverlay |-> FALSE, completeDisabled |-> FALSE,
              boardCards |-> {}, orderLines |-> <<>>],
     timers |-> {}]

Init ==
    /\ state = InitWorld.state
    /\ dom = InitWorld.dom
    /\ timers = InitWorld.timers
    /\ closeTimers = <<>>
    /\ inflight = EmptyBag
    /\ lastOp = Op("other", "ok", NULL, NULL, FALSE)
    /\ call = NoCall

\* ------------------------------------------------------ reconciliation
\* patchLine / completeOrder without the board-cache update
mergeIntoBoardStale(orders, order, line) == orders

\* state.orders with the order record of the entry for order.id replaced
\* and, when `line` is given as <<line>>, its preview line with that id too
mergeIntoBoard(orders, order, line) ==
    LET wIdx == FindIndex(orders, LAMBDA w : w.order.id = order.id)
    IN  IF wIdx = 0 THEN orders
        ELSE LET lines == orders[wIdx].lines
                 lIdx == IF line = <<>> THEN 0
                         ELSE FindIndex(lines, LAMBDA l : l.id = line[1].id)
             IN  [orders EXCEPT ![wIdx] =
                     [order |-> order,
                      lines |-> IF lIdx > 0 THEN [lines EXCEPT ![lIdx] = line[1]]
                                ELSE lines]]

\* a detail merge that takes the order record and leaves the line stale
mergeIntoDetailOrderOnly(orderDetail, order, line) ==
    IF orderDetail = NoDetail THEN NoDetail
    ELSE <<[order |-> order, lines |-> orderDetail[1].lines]>>

\* state.orderDetail after a line-patch response
mergeIntoDetail(orderDetail, order, line) ==
    IF orderDetail = NoDetail THEN NoDetail
    ELSE LET lines == orderDetail[1].lines
             idx == FindIndex(lines, LAMBDA l : l.id = line.id)
         IN  <<[order |-> order,
                lines |-> IF idx > 0 THEN [lines EXCEPT ![idx] = line] ELSE lines]>>

\* patchLine from `const data = await res.json()` to the incremental UI update
applyLinePatch(w, data) ==
    [w EXCEPT !.state.orderDetail = mergeIntoDetail(@, data.order, data.line),
              !.state.orders = mergeIntoBoard(@, data.order, <<data.line>>),
              !.dom.orderLines = updateLineUI(@, data.line)]

\* a completion branch that never shows the overlay
showCompleteNoOp(w) == w

\* patchLine's completion branch: showComplete() (the timeout is counted apart)
showComplete(w) == [w EXCEPT !.dom.completeOverlay = TRUE]

\* completeOrder's try block once the response is parsed; a null orderDetail
\* makes the first assignment throw, which the catch swallows
applyOrderPatch(w, order) ==
    IF w.state.orderDetail = NoDetail THEN w
    ELSE renderBoard([w EXCEPT !.state.orderDetail[1].order = order,
                               !.state.orders = mergeIntoBoard(@, order, <<>>)])

\* loadOrders after a 2xx response
ingestBoard(w, list) == renderBoard([w EXCEPT !.state.orders = list])

\* loadOrderDetail after a 2xx response, then renderOrderDetail
ingestDetail(w, orderId, detail) ==
    [w EXCEPT !.state.orderDetail = <<detail>>,
              !.state.activeOrderId = orderId,
              !.dom.completeDisabled = FALSE,
              !.dom.orderLines = renderLines(detail.lines),
              !.dom.completeOverlay = FALSE]

\* openOrder after loadOrderDetail resolved
showOrderView(w) == [w EXCEPT !.dom.appView = FALSE, !.dom.orderView = TRUE]

\* bootApp after loadConfig resolved
showAppView(w) == [w EXCEPT !.dom.appView = TRUE, !.dom.loginView = FALSE]

\* openOrder's handling of a 2xx answer to the open notification
applyOpened(w, order) ==
    IF FindIndex(w.state.orders, LAMBDA e : e.order.id = order.id) > 0
    THEN renderBoard([w EXCEPT !.state.orders = mergeIntoBoard(@, order, <<>>)])
    ELSE w

\* bootApp's catch block
bootFailed(w) == logout(w)

\* apiFetch that throws on a 401 without calling logout()
unauthorizedNoLogout(w) == w

\* apiFetch on a 401 response: logout(), then the throw
unauthorized(w) == logout(w)

\* --------------------------------------------------------------- actions
\* What lastOp records: a handler that merged a response into the caches,
\* closed the order view or met a 401 is recorded by name; any other step
\* is recorded as Quiet.
Quiet == Op("other", "ok", NULL, NULL, FALSE)
Unauthorized == Op("apiFetch", "unauthorized", NULL, NULL, FALSE)
Record(outcome, op) == IF outcome = "unauthorized" THEN Unauthorized ELSE op
\* the step recorded is a patch answer that was merged into the caches
PatchApplied(op) == op.name = "patchLine" /\ op.status = "ok"

\* loginButton click: login(pwd) is awaited with the button disabled
LoginBusy ==
    \E t \in BagToSet(inflight) :
        t.kind \in {"login", "config"} \/ (t.kind = "orders" /\ t.origin = "boot")

ClickLogin ==
    /\ dom.loginView /\ ~LoginBusy /\ Room
    /\ inflight' = Issue(Task("login", "boot", NULL, NULL, 0))
    /\ lastOp' = Quiet
    /\ UNCHANGED <<state, dom, timers, closeTimers>>
    /\ UNCHANGED call

\* POST /api/login answered (a plain fetch, not apiFetch): on success bootApp
\* starts and awaits loadConfig
LoginResponse ==
    \E t \in BagToSet(inflight) : \E ok \in BOOLEAN :
        /\ t.kind = "login"
        /\ inflight' = IF ok THEN Settle(t) (+) SetToBag({Task("config", "boot", NULL, NULL, 0)})
                       ELSE Settle(t)
        /\ lastOp' = Quiet
        /\ UNCHANGED <<state, dom, timers, closeTimers>>
        /\ UNCHANGED call

\* the ways the config read can end
ConfigOutcomes(u) == IF u = Flaky THEN Outcomes \cup {"errorBody"} ELSE Outcomes

\* loadConfig resumes inside bootApp.  It does not test res.ok: a failure whose
\* body is JSON ("errorBody") is stored as the config and bootApp goes on; a
\* failure that makes it throw ("error": the fetch is rejected, or the body
\* is not JSON) reaches bootApp's catch.
ConfigResponse(u) ==
    \E t \in BagToSet(inflight) : \E outcome \in ConfigOutcomes(u) :
        /\ t.kind = "config"
        /\ IF outcome \in {"ok", "errorBody"}
           THEN /\ Commit(showAppView([World EXCEPT !.state.config =
                                          IF outcome = "ok" THEN "config" ELSE "errorBody"]))
                /\ inflight' = Settle(t) (+) SetToBag({Task("orders", "boot", NULL, NULL, 0)})
           ELSE /\ Commit(IF outcome = "unauthorized" THEN bootFailed(unauthorized(World))
                          ELSE bootFailed(World))
                /\ inflight' = Settle(t)
        /\ lastOp' = Record(outcome,
                            Op("loadConfig", IF outcome = "ok" THEN "ok" ELSE "error",
                               NULL, NULL, FALSE))
        /\ UNCHANGED closeTimers
        /\ UNCHANGED call

\* loadOrders resumes.  Awaited by bootApp (origin "boot") it is followed by
\* startPolling() and the fire-and-forget syncNow(); a failure there reaches
\* bootApp's catch.  Elsewhere its caller swallows the failure.
LoadOrdersResponse(u) ==
    \E t \in BagToSet(inflight) : \E outcome \in Outcomes :
        /\ t.kind = "orders"
        /\ IF outcome = "ok"
           THEN \E v \in ReadVersions(u) :
                    IF t.origin = "boot"
                    THEN /\ Commit(startPolling(ingestBoard(World, ListResponse(u, v))))
                         /\ inflight' = Settle(t) (+)
                                SetToBag({Task("sync", "boot", NULL, NULL, 0)})
                    ELSE /\ Commit(ingestBoard(World, ListResponse(u, v)))
                         /\ inflight' = Settle(t)
           ELSE /\ Commit(LET w1 == IF outcome = "unauthorized" THEN unauthorized(World)
                                    ELSE World
                          IN  IF t.origin = "boot" THEN bootFailed(w1) ELSE w1)
                /\ inflight' = Settle(t)
        /\ lastOp' = Record(outcome,
                            Op(IF t.origin = "boot" THEN "bootLoadOrders" ELSE "loadOrders",
                               outcome, NULL, NULL, FALSE))
        /\ UNCHANGED closeTimers
        /\ UNCHANGED call

\* a sync continuation that reloads the board whatever the sync's outcome
SyncResponseAlwaysReloads ==
    \E t \in BagToSet(inflight) : \E outcome \in Outcomes :
        /\ t.kind = "sync"
        /\ Commit(IF outcome = "unauthorized" THEN unauthorized(World) ELSE World)
        /\ inflight' = Settle(t) (+) SetToBag({Task("orders",
                                IF t.origin = "boot" THEN "background" ELSE "refresh",
                                NULL, NULL, 0)})
        /\ lastOp' = Record(outcome, Op("syncNow", outcome, NULL, NULL, FALSE))
        /\ UNCHANGED closeTimers
        /\ UNCHANGED call

\* syncNow resumes: .then(loadOrders) after bootApp, `await loadOrders()` in
\* the refresh handler; both swallow a failure
SyncResponse ==
    \E t \in BagToSet(inflight) : \E outcome \in Outcomes :
        /\ t.kind = "sync"
        /\ Commit(IF outcome = "unauthorized" THEN unauthorized(World) ELSE World)
        /\ inflight' = IF outcome = "ok"
                       THEN Settle(t) (+) SetToBag({Task("orders",
                                IF t.origin = "boot" THEN "background" ELSE "refresh",
                                NULL, NULL, 0)})
                       ELSE Settle(t)
        /\ lastOp' = Record(outcome, Op("syncNow", outcome, NULL, NULL, FALSE))
        /\ UNCHANGED closeTimers
        /\ UNCHANGED call

\* the setInterval callback of a live timer; with an order open it does
\* nothing at all
PollTick ==
    \E id \in timers :
        /\ state.activeOrderId = NULL
        /\ Room
        /\ inflight' = Issue(Task("orders", "background", NULL, NULL, 0))
        /\ lastOp' = Quiet
        /\ UNCHANGED <<state, dom, timers, closeTimers>>
        /\ UNCHANGED call

\* refreshButton click: disabled until syncNow and loadOrders have settled
ClickRefresh ==
    /\ dom.appView /\ Room
    /\ ~\E t \in BagToSet(inflight) : t.origin = "refresh"
    /\ inflight' = Issue(Task("sync", "refresh", NULL, NULL, 0))
    /\ lastOp' = Quiet
    /\ UNCHANGED <<state, dom, timers, closeTimers>>
    /\ UNCHANGED call

ClickLogout ==
    /\ dom.appView
    /\ Commit(logout(World))
    /\ lastOp' = Quiet
    /\ UNCHANGED <<closeTimers, inflight>>
    /\ UNCHANGED call

\* a card's click handler: openOrder up to its first await
ClickCard ==
    \E orderId \in dom.boardCards :
        /\ dom.appView /\ Room
        /\ Commit(stopPolling(World))
        /\ inflight' = Issue(Task("open", "card", orderId, NULL, 0))
        /\ lastOp' = Quiet
        /\ UNCHANGED closeTimers
        /\ UNCHANGED call

\* an openOrder that gives up when the open notification fails
OpenResponseFatal(u) ==
    \E t \in BagToSet(inflight) : \E outcome \in Outcomes :
        /\ t.kind = "open"
        /\ IF outcome = "ok"
           THEN \E v \in OpenVersions(u) :
                    Commit(applyOpened(World, ServerOrder(t.orderId, v)))
           ELSE Commit(IF outcome = "unauthorized" THEN unauthorized(World) ELSE World)
        /\ inflight' = IF outcome = "ok"
                       THEN Settle(t) (+) SetToBag({Task("detail", "card", t.orderId, NULL, 0)})
                       ELSE Settle(t)
        /\ lastOp' = Record(outcome, IF outcome = "error"
                                     THEN Op("openOrder", "error", t.orderId, NULL, FALSE)
                                     ELSE Quiet)
        /\ UNCHANGED closeTimers
        /\ UNCHANGED call

\* openOrder resumes after the open notification, whatever its outcome, and
\* calls loadOrderDetail
OpenResponse(u) ==
    \E t \in BagToSet(inflight) : \E outcome \in Outcomes :
        /\ t.kind = "open"
        /\ IF outcome = "ok"
           THEN \E v \in OpenVersions(u) :
                    Commit(applyOpened(World, ServerOrder(t.orderId, v)))
           ELSE Commit(IF outcome = "unauthorized" THEN unauthorized(World) ELSE World)
        /\ inflight' = Settle(t) (+) SetToBag({Task("detail", "card", t.orderId, NULL, 0)})
        /\ lastOp' = Record(outcome, IF outcome = "error"
                                     THEN Op("openOrder", "error", t.orderId, NULL, FALSE)
                                     ELSE Quiet)
        /\ UNCHANGED closeTimers
        /\ UNCHANGED call

\* loadOrderDetail resumes, then the tail of openOrder
OrderDetailResponse(u) ==
    \E t \in BagToSet(inflight) : \E outcome \in Outcomes :
        /\ t.kind = "detail"
        /\ IF outcome = "ok"
           THEN \E v \in ReadVersions(u) :
                    Commit(showOrderView(ingestDetail(World, t.orderId,
                                                      DetailResponse(u, t.orderId, v))))
           ELSE Commit(IF outcome = "unauthorized" THEN unauthorized(World) ELSE World)
        /\ inflight' = Settle(t)
        /\ lastOp' = Record(outcome, Op("loadOrderDetail", outcome, NULL, NULL, FALSE))
        /\ UNCHANGED closeTimers
        /\ UNCHANGED call

\* the quantity a tap on a line element submits
TapQty(s, el, button) ==
    LET step == inferStep(el.ordered)
        cur == getLineQtyFromState(s, el.lineId)
    IN  IF button = "fill" THEN el.ordered
        ELSE IF button = "plus" THEN clampAndRound(cur + step, el.ordered, step)
        ELSE clampAndRound(cur - step, el.ordered, step)

\* a tap handler that writes the submitted quantity into the order detail
\* before the request is answered
TapOptimistic ==
    \E i \in 1..Len(dom.orderLines) : \E button \in {"minus", "plus", "fill"} :
        LET el == dom.orderLines[i]
            qty == TapQty(state, el, button)
        IN  /\ dom.orderView /\ el.controls /\ Room
            /\ inflight' = Issue(Task("patch", "tap", state.activeOrderId, el.lineId, qty))
            /\ state' = [state EXCEPT !.orderDetail =
                             IF @ = NoDetail THEN @
                             ELSE <<[@[1] EXCEPT !.lines =
                                       [k \in 1..Len(@) |->
                                           IF @[k].id = el.lineId
                                           THEN [@[k] EXCEPT !.qty_collected = qty]
                                           ELSE @[k]]]>>]
            /\ lastOp' = Quiet
            /\ UNCHANGED <<dom, timers, closeTimers>>
            /\ UNCHANGED call

\* the click handlers of a line's minus / plus / fill buttons, up to the
\* await inside patchLine
Tap ==
    \E i \in 1..Len(dom.orderLines) : \E button \in {"minus", "plus", "fill"} :
        /\ dom.orderView /\ dom.orderLines[i].controls /\ Room
        /\ inflight' = Issue(Task("patch", "tap", state.activeOrderId,
                                  dom.orderLines[i].lineId,
                                  TapQty(state, dom.orderLines[i], button)))
        /\ lastOp' = Quiet
        /\ UNCHANGED <<state, dom, timers, closeTimers>>
        /\ UNCHANGED call

\* what PATCH /api/orders/{orderId}/lines/{lineId} may answer with: the line
\* holding the submitted quantity, the order in either snapshot, and the
\* completion flag only with an order the backend holds as picked
PatchResponses(u, t) ==
    {[order |-> ServerOrder(t.orderId, v),
      line |-> Line(t.lineId, t.qty, removed),
      order_completed_now |-> completed] :
        v \in Versions, completed \in BOOLEAN, removed \in RemovedFlags(u)}

\* patchLine resumes
PatchResponse(u) ==
    \E t \in BagToSet(inflight) : \E outcome \in Outcomes :
        /\ t.kind = "patch"
        /\ inflight' = Settle(t)
        /\ IF outcome = "ok"
           THEN \E data \in PatchResponses(u, t) :
                    /\ t.orderId = OrderOfLine(t.lineId)
                    /\ data.order_completed_now =>
                           data.order.column = "picked" /\ Len(closeTimers) < MaxCloseTimers
                    /\ Commit(IF data.order_completed_now
                              THEN showComplete(applyLinePatch(World, data))
                              ELSE applyLinePatch(World, data))
                    /\ closeTimers' = IF data.order_completed_now
                                      THEN Append(closeTimers, t.orderId)
                                      ELSE closeTimers
                    /\ lastOp' = Op("patchLine", "ok", t.orderId, t.lineId,
                                    data.order_completed_now)
           ELSE /\ Commit(IF outcome = "unauthorized" THEN unauthorized(World) ELSE World)
                /\ lastOp' = Record(outcome, Op("patchLine", outcome, NULL, NULL, FALSE))
                /\ UNCHANGED closeTimers
        /\ UNCHANGED call

\* an auto-close callback that closes the view and loads nothing
AutoCloseNoReload ==
    /\ closeTimers # <<>> /\ Room
    /\ closeTimers' = Tail(closeTimers)
    /\ Commit(closeOrderView(World))
    /\ lastOp' = Op("autoClose", "ok", NULL, NULL, FALSE)
    /\ UNCHANGED inflight
    /\ UNCHANGED call

\* the setTimeout callback of patchLine: closeOrderView(), then loadOrders()
AutoClose ==
    /\ closeTimers # <<>> /\ Room
    /\ closeTimers' = Tail(closeTimers)
    /\ Commit(closeOrderView(World))
    /\ inflight' = Issue(Task("orders", "background", NULL, NULL, 0))
    /\ lastOp' = Op("autoClose", "ok", NULL, NULL, FALSE)
    /\ UNCHANGED call

\* backButton click
ClickBack ==
    /\ dom.orderView
    /\ Commit(closeOrderView(World))
    /\ lastOp' = Op("back", "ok", NULL, NULL, FALSE)
    /\ UNCHANGED <<closeTimers, inflight>>
    /\ UNCHANGED call

\* completeButton click: completeOrder up to its await
ClickComplete ==
    /\ dom.orderView /\ ~dom.completeDisabled /\ Room
    /\ state.orderDetail # NoDetail
    /\ Commit([World EXCEPT !.dom.completeDisabled = TRUE])
    /\ inflight' = Issue(Task("complete", "button", state.orderDetail[1].order.id, NULL, 0))
    /\ lastOp' = Quiet
    /\ UNCHANGED closeTimers
    /\ UNCHANGED call

\* completeOrder resumes; its finally block re-enables the button
CompleteResponse(u) ==
    \E t \in BagToSet(inflight) : \E outcome \in Outcomes :
        /\ t.kind = "complete"
        /\ IF outcome = "ok"
           THEN \E v \in CompleteVersions(u) :
                    Commit([applyOrderPatch(World, ServerOrder(t.orderId, v))
                               EXCEPT !.dom.completeDisabled = FALSE])
           ELSE Commit([(IF outcome = "unauthorized" THEN unauthorized(World) ELSE World)
                           EXCEPT !.dom.completeDisabled = FALSE])
        /\ inflight' = Settle(t)
        /\ lastOp' = Record(outcome, Op("completeOrder", outcome, t.orderId, NULL, FALSE))
        /\ UNCHANGED closeTimers
        /\ UNCHANGED call

Next ==
    \/ ClickLogin
    \/ LoginResponse
    \/ ConfigResponse(Small)
    \/ LoadOrdersResponse(Small)
    \/ SyncResponse
    \/ PollTick
    \/ ClickRefresh
    \/ ClickLogout
    \/ ClickCard
    \/ OpenResponse(Small)
    \/ OrderDetailResponse(Small)
    \/ Tap
    \/ PatchResponse(Small)
    \/ AutoClose
    \/ ClickBack
    \/ ClickComplete
    \/ CompleteResponse(Small)

\* the whole client, from the page load, against the small data set
Spec == Init /\ [][Next]_vars

NextFlaky ==
    \/ ClickLogin
    \/ LoginResponse
    \/ ConfigResponse(Flaky)
    \/ LoadOrdersResponse(Flaky)
    \/ SyncResponse
    \/ PollTick
    \/ ClickRefresh
    \/ ClickLogout
    \/ ClickCard
    \/ OpenResponse(Flaky)
    \/ OrderDetailResponse(Flaky)
    \/ Tap
    \/ PatchResponse(Flaky)
    \/ AutoClose
    \/ ClickBack
    \/ ClickComplete
    \/ CompleteResponse(Flaky)

\* the whole client, from the page load, against the flaky backend
SpecFlaky == Init /\ [][NextFlaky]_vars

\* A session that has booted against the rich data set: config and board
\* loaded, polling started, nothing in flight.
InitStore ==
    LET w == startPolling(ingestBoard(
                 showAppView([InitWorld EXCEPT !.state.config = "config"]),
                 ListResponse(Rich, 0)))
    IN  /\ state = w.state
        /\ dom = w.dom
        /\ timers = w.timers
        /\ closeTimers = <<>>
        /\ inflight = EmptyBag
        /\ lastOp = Op("bootLoadOrders", "ok", NULL, NULL, FALSE)
        /\ call = NoCall

NextStore ==
    \/ PollTick
    \/ LoadOrdersResponse(Rich)
    \/ ClickCard
    \/ OpenResponse(Rich)
    \/ OrderDetailResponse(Rich)
    \/ Tap
    \/ PatchResponse(Rich)
    \/ AutoClose
    \/ ClickBack

\* the reconciliation store at work: board and detail navigation, polling
\* and quantity edits against the rich data set
SpecStore == InitStore /\ [][NextStore]_vars

\* A session that has booted against the churning data set.
InitLines ==
    LET w == startPolling(ingestBoard(
                 showAppView([InitWorld EXCEPT !.state.config = "config"]),
                 ListResponse(Churn, 0)))
    IN  /\ state = w.state
        /\ dom = w.dom
        /\ timers = w.timers
        /\ closeTimers = <<>>
        /\ inflight = EmptyBag
        /\ lastOp = Op("bootLoadOrders", "ok", NULL, NULL, FALSE)
        /\ call = NoCall

NextLines ==
    \/ PollTick
    \/ LoadOrdersResponse(Churn)
    \/ ClickCard
    \/ OpenResponse(Churn)
    \/ OrderDetailResponse(Churn)
    \/ Tap
    \/ PatchResponse(Churn)
    \/ AutoClose
    \/ ClickBack

\* the order view at work on lines that the upstream system removes
SpecLines == InitLines /\ [][NextLines]_vars

\* The order view on its own: order 1 of the shelf is open, its detail read
\* has returned its lines in any state (collected or not, removed or not)
\* and they are rendered.
ShelfLines ==
    {[k \in 1..Len(LinesOf(Shelf, 1)) |-> Line(LinesOf(Shelf, 1)[k], c[k], r[k])] :
        c \in [1..Len(LinesOf(Shelf, 1)) -> {0, Unit}],
        r \in [1..Len(LinesOf(Shelf, 1)) -> BOOLEAN]}

InitDom ==
    \E lines \in ShelfLines :
        LET booted == ingestBoard(showAppView([InitWorld EXCEPT !.state.config = "config"]),
                                  ListResponse(Shelf, 0))
            w == showOrderView(ingestDetail(booted, 1,
                                            [order |-> ServerOrder(1, 0), lines |-> lines]))
        IN  /\ state = w.state
            /\ dom = w.dom
            /\ timers = w.timers
            /\ closeTimers = <<>>
            /\ inflight = EmptyBag
            /\ lastOp = Op("loadOrderDetail", "ok", NULL, NULL, FALSE)
            /\ call = NoCall

\* A tap on a line's controls and patchLine's handling of its answer, taken
\* as one step: the answer carries the line with the quantity the tap
\* submitted (none or all of it), removed or not.
TapAnswered ==
    \E i \in 1..Len(dom.orderLines) : \E button \in {"minus", "plus", "fill"} :
        \E removed \in BOOLEAN :
            LET el == dom.orderLines[i]
                data == [order |-> ServerOrder(state.activeOrderId, 0),
                         line |-> Line(el.lineId, TapQty(state, el, button), removed),
                         order_completed_now |-> FALSE]
            IN  /\ dom.orderView /\ el.controls
                /\ Commit(applyLinePatch(World, data))
                /\ lastOp' = Op("patchLine", "ok", state.activeOrderId, el.lineId, FALSE)
                /\ UNCHANGED <<closeTimers, inflight>>
                /\ UNCHANGED call

NextDom == TapAnswered

\* the rendered lines of an open order under a sequence of answered taps
SpecDom == InitDom /\ [][NextDom]_vars

\* Repeated plus taps on one line: order 1 of the bulk data set is open, its
\* line rendered with none or one of the three ordered collected; `call`
\* counts the plus taps made since.
InitTaps ==
    \E v \in Versions :
        LET booted == ingestBoard(showAppView([InitWorld EXCEPT !.state.config = "config"]),
                                  ListResponse(Bulk, 0))
            w == showOrderView(ingestDetail(booted, 1, DetailResponse(Bulk, 1, v)))
        IN  /\ state = w.state
            /\ dom = w.dom
            /\ timers = w.timers
            /\ closeTimers = <<>>
            /\ inflight = EmptyBag
            /\ lastOp = Op("loadOrderDetail", "ok", NULL, NULL, FALSE)
            /\ call = [fn |-> "plus",
                       arg |-> [initial |-> w.state.orderDetail[1].lines[1].qty_collected,
                                taps |-> 0],
                       result |-> <<>>]

\* the plus button's click handler, up to the await inside patchLine
TapPlus ==
    \E i \in 1..Len(dom.orderLines) :
        /\ dom.orderView /\ dom.orderLines[i].controls /\ Room
        /\ call.arg.taps < MaxTaps
        /\ inflight' = Issue(Task("patch", "tap", state.activeOrderId,
                                  dom.orderLines[i].lineId,
                                  TapQty(state, dom.orderLines[i], "plus")))
        /\ lastOp' = Quiet
        /\ call' = [call EXCEPT !.arg.taps = @ + 1]
        /\ UNCHANGED <<state, dom, timers, closeTimers>>

\* patchLine resumes on a 2xx answer
PlusAnswered == PatchResponse(Bulk) /\ PatchApplied(lastOp')

NextTaps ==
    \/ TapPlus
    \/ PlusAnswered

\* rapid plus taps against a backend that stores what each request submits
SpecTaps == InitTaps /\ [][NextTaps]_vars

\* ---------------------------------------------- the pure helpers alone
\* the lines and orders the helpers are called on
LineArgs ==
    [qty_ordered : {Missing, 0, 4 * Unit, 5 * Unit, 7 * Unit, 10 * Unit},
     qty_collected : {Missing, 0, 5 * Unit, (99 * Unit) \div 10, 10 * Unit - 11,
                      10 * Unit - 10, 10 * Unit - 5, 10 * Unit, 11 * Unit},
     baseline_qty_ordered : {Missing, 0, 5 * Unit - 10, 5 * Unit, 5 * Unit + 9, 7 * Unit},
     is_added : BOOLEAN]

\* ordered quantities: none, 0, 3, 2.5, 1.25, 1.27, 1.05, 0.05, 0.125
QtyArgs ==
    {Missing, 0, 3 * Unit, (5 * Unit) \div 2, (5 * Unit) \div 4, (127 * Unit) \div 100,
     (105 * Unit) \div 100, (5 * Unit) \div 100, Unit \div 8}

\* values -1 .. 11, limits 0 .. 3 and steps 1e-7 .. 2 for clampAndRound
ClampArgs ==
    [value : {-Unit, 0, 1, Unit \div 4, Unit \div 2, (105 * Unit) \div 100,
              (13 * Unit) \div 10, (5 * Unit) \div 2, (26 * Unit) \div 10, 3 * Unit, 11 * Unit},
     max : {0, Unit, (5 * Unit) \div 4, (5 * Unit) \div 2, 3 * Unit},
     step : {1, Unit \div 100, Unit \div 10, Unit \div 4, Unit \div 2, Unit, 2 * Unit}]

\* a tap on plus or minus: the line's ordered quantity and the collected
\* quantity the order detail holds for it
TapArgs ==
    [ordered : QtyArgs \ {Missing, 0},
     cur : {0, Unit \div 10, Unit, (12 * Unit) \div 10, (5 * Unit) \div 4, 3 * Unit},
     button : {"minus", "plus"}]

\* the line lists of an order detail: three lines, each collected or not,
\* removed or not, with a sort index that may be absent or tie with another
DetailArgs ==
    {[k \in 1..3 |-> [Line(10 + k, c[k], r[k]) EXCEPT !.sort_index = x[k]]] :
        c \in [1..3 -> {0, Unit}], r \in [1..3 -> BOOLEAN],
        x \in [1..3 -> {Missing, 1, 2}]}

OrderArgs ==
    [total_qty : {Missing, 0, 2 * Unit},
     collected_qty : {Missing, 0, 1, Unit, 2 * Unit - 11, 2 * Unit - 10, 2 * Unit, 3 * Unit},
     column : Columns \cup {"none", "archived"}]

InitPure ==
    /\ state = InitWorld.state
    /\ dom = InitWorld.dom
    /\ timers = InitWorld.timers
    /\ closeTimers = <<>>
    /\ inflight = EmptyBag
    /\ lastOp = Quiet
    /\ \/ call \in {[fn |-> "line", arg |-> a, result |-> <<>>] : a \in LineArgs}
       \/ call \in {[fn |-> "order", arg |-> a, result |-> <<>>] : a \in OrderArgs}
       \/ call \in {[fn |-> "qty", arg |-> a, result |-> <<>>] : a \in QtyArgs}
       \/ call \in {[fn |-> "detail", arg |-> a, result |-> <<>>] : a \in DetailArgs}
       \/ call \in {[fn |-> "clamp", arg |-> a, result |-> <<>>] : a \in ClampArgs}
       \/ call \in {[fn |-> "tap", arg |-> a, result |-> <<>>] : a \in TapArgs}

Called(fn, result) ==
    /\ call' = [fn |-> fn, arg |-> call.arg, result |-> result]
    /\ UNCHANGED <<state, dom, timers, closeTimers, inflight, lastOp>>

CallIsLineDone == call.fn = "line" /\ Called("isLineDone", isLineDone(call.arg))

CallComputeDelta == call.fn = "line" /\ Called("computeDelta", computeDelta(call.arg))

CallIsOrderDone == call.fn = "order" /\ Called("isOrderDone", isOrderDone(call.arg))

CallGetOrderColumn == call.fn = "order" /\ Called("getOrderColumn", getOrderColumn(call.arg))

CallInferStep == call.fn = "qty" /\ Called("inferStep", inferStep(call.arg))

CallClampAndRound ==
    /\ call.fn = "clamp"
    /\ Called("clampAndRound", clampAndRound(call.arg.value, call.arg.max, call.arg.step))

\* clampAndRound called on its own result, with the same limit and step
CallClampAndRoundAgain ==
    /\ call.fn = "clampAndRound"
    /\ Called("clampAndRoundAgain", clampAndRound(call.result, call.arg.max, call.arg.step))

\* the plus / minus handler of a line element computing what it submits
CallTapQty ==
    /\ call.fn = "tap"
    /\ Called("tapQty",
              TapQty([orderDetail |-> <<[lines |-> <<[id |-> 11,
                                                      qty_collected |-> call.arg.cur]>>]>>],
                     [lineId |-> 11, ordered |-> call.arg.ordered],
                     call.arg.button))

\* renderOrderDetail laying out the lines of a detail
CallRenderLines == call.fn = "detail" /\ Called("renderLines", renderLines(call.arg))

NextPure ==
    \/ CallIsLineDone
    \/ CallComputeDelta
    \/ CallIsOrderDone
    \/ CallGetOrderColumn
    \/ CallInferStep
    \/ CallClampAndRound
    \/ CallClampAndRoundAgain
    \/ CallTapQty
    \/ CallRenderLines

\* each helper called once on each argument
SpecPure == InitPure /\ [][NextPure]_vars

\* ------------------------------------------------------------ properties
\* C1: at most one poll timer is live at any time, and a live timer is the
\* one state.pollTimer holds: startPolling cancels the previous timer before
\* it creates the next, so no timer runs that the state has lost track of.
C1_SinglePollTimer ==
    /\ Cardinality(timers) <= 1
    /\ timers = (IF state.pollTimer = NULL THEN {} ELSE {state.pollTimer})

\* startPolling has run a second time in the session: the auto-close
\* callback restarted polling after the boot had started it
C1_Witness ==
    /\ lastOp.name = "autoClose"
    /\ state.pollTimer # NULL
    /\ timers = {state.pollTimer}

\* C2: whenever an order is open (activeOrderId is not null) no poll timer
\* is live.
C2_NoTimerWhileOrderOpen ==
    state.activeOrderId # NULL => (state.pollTimer = NULL /\ timers = {})

\* C3: no step taken while an order is open replaces the board cache by the
\* result of a full board list load.
C3_NoRefreshWhileOrderOpen ==
    [][state.activeOrderId # NULL =>
           ~(lastOp'.name \in {"loadOrders", "bootLoadOrders"} /\ lastOp'.status = "ok")]_vars

\* C4: once apiFetch has met a 401 the session is cleared: no config, no
\* board cache, no order detail, no active order, no poll timer, and the
\* login view is the one shown.
C4_UnauthorizedClearsSession ==
    lastOp = Unauthorized =>
        /\ state.config = NoConfig
        /\ state.orders = <<>>
        /\ state.orderDetail = NoDetail
        /\ state.activeOrderId = NULL
        /\ state.pollTimer = NULL
        /\ timers = {}
        /\ dom.loginView /\ ~dom.appView /\ ~dom.orderView

\* a 401 met by a session that had loaded its board
C4_Witness == lastOp = Unauthorized /\ dom.boardCards # {}

\* C5: the response to a patch of line X of order O changes only the order
\* record of O and the cached copies of X: every other line of the order
\* detail, every other preview line, every other order's board entry and
\* the order record of any other order stay as they were, and no line or
\* entry is added or removed.
C5_PatchFrame ==
    [][PatchApplied(lastOp') =>
        LET O == lastOp'.orderId
            X == lastOp'.lineId
            SameButX(old, new) ==
                /\ Len(new) = Len(old)
                /\ \A j \in 1..Len(old) :
                       /\ new[j].id = old[j].id
                       /\ old[j].id # X => new[j] = old[j]
        IN  /\ Len(state'.orders) = Len(state.orders)
            /\ \A k \in 1..Len(state.orders) :
                   /\ state.orders[k].order.id # O => state'.orders[k] = state.orders[k]
                   /\ SameButX(state.orders[k].lines, state'.orders[k].lines)
            /\ (state'.orderDetail = NoDetail) <=> (state.orderDetail = NoDetail)
            /\ state.orderDetail # NoDetail =>
                   /\ SameButX(state.orderDetail[1].lines, state'.orderDetail[1].lines)
                   /\ state.orderDetail[1].order.id # O =>
                          state'.orderDetail[1].order = state.orderDetail[1].order]_vars

\* C6: after a line-patch or order-complete response has been applied, the
\* order detail and the board entry with the same order id hold the same
\* aggregate fields.
C6_AggregatesAgree ==
    ((PatchApplied(lastOp) \/ (lastOp.name = "completeOrder" /\ lastOp.status = "ok"))
         /\ state.orderDetail # NoDetail) =>
        \A k \in 1..Len(state.orders) :
            state.orders[k].order.id = state.orderDetail[1].order.id =>
                /\ state.orders[k].order.total_qty = state.orderDetail[1].order.total_qty
                /\ state.orders[k].order.collected_qty = state.orderDetail[1].order.collected_qty
                /\ state.orders[k].order.progress_pct = state.orderDetail[1].order.progress_pct

\* a patch response moved the aggregates of an order that is both open and
\* on the board away from what the reads had returned
C6_Witness ==
    /\ PatchApplied(lastOp)
    /\ state.orderDetail # NoDetail
    /\ state.orderDetail[1].order.collected_qty > 0
    /\ \E k \in 1..Len(state.orders) :
           state.orders[k].order.id = state.orderDetail[1].order.id

\* C7: a patch response flagged order_completed_now shows the overlay and
\* schedules one auto-close; when the auto-close fires the session is in
\* board mode (no active order, no detail, overlay hidden, board shown) and
\* a board list load has been issued; a patch response without the flag
\* leaves the overlay as it was and schedules nothing.
C7_CompletionAutoClose ==
    [][/\ (PatchApplied(lastOp') /\ lastOp'.completed) =>
              (dom'.completeOverlay /\ closeTimers' = Append(closeTimers, lastOp'.orderId))
       /\ (PatchApplied(lastOp') /\ ~lastOp'.completed) =>
              (dom'.completeOverlay = dom.completeOverlay /\ closeTimers' = closeTimers)
       /\ lastOp'.name = "autoClose" =>
              /\ closeTimers # <<>> /\ closeTimers' = Tail(closeTimers)
              /\ state'.activeOrderId = NULL
              /\ state'.orderDetail = NoDetail
              /\ ~dom'.completeOverlay /\ ~dom'.orderView /\ dom'.appView
              /\ BoardLoads(inflight') = BoardLoads(inflight) + 1]_vars

\* the auto-close scheduled by a completion has fired and its load is out
C7_Witness ==
    /\ lastOp.name = "autoClose"
    /\ state.activeOrderId = NULL
    /\ ~dom.completeOverlay
    /\ BoardLoads(inflight) > 0

\* C8 as stated: every step from detail to board, by back navigation or by
\* auto-close, issues a board list load.
C8_EveryCloseReloads ==
    [][(state.activeOrderId # NULL /\ lastOp'.name \in {"back", "autoClose"}) =>
           BoardLoads(inflight') = BoardLoads(inflight) + 1]_vars

\* C8 amended: the auto-close issues a board list load as part of the step;
\* back navigation issues no request at all, it only restarts the poll timer
\* (the next tick of which reloads the board).
C8_CloseReloadsOnlyOnAutoClose ==
    [][/\ (state.activeOrderId # NULL /\ lastOp'.name = "autoClose") =>
              BoardLoads(inflight') = BoardLoads(inflight) + 1
       /\ (state.activeOrderId # NULL /\ lastOp'.name = "back") =>
              (inflight' = inflight /\ state'.pollTimer # NULL
                   /\ state'.pollTimer \in timers')]_vars

\* back navigation has returned to the board with no board list load out
C8_Witness ==
    /\ lastOp.name = "back"
    /\ BoardLoads(inflight) = 0
    /\ state.pollTimer \in timers

\* C9: closing the order view, by back navigation or by auto-close, leaves
\* exactly one poll timer live, the one state.pollTimer holds.
C9_CloseLeavesOneTimer ==
    lastOp.name \in {"back", "autoClose"} =>
        (Cardinality(timers) = 1 /\ state.pollTimer \in timers)

\* the view was closed by back navigation after an order had been rendered
C9_Witness ==
    /\ lastOp.name = "back"
    /\ Cardinality(timers) = 1
    /\ state.activeOrderId = NULL
    /\ dom.orderLines # <<>>

\* C10: a read (config, board list, order detail) that fails with anything
\* but a 401 leaves config, board cache, order detail and activeOrderId as
\* they were, the board load awaited by bootApp included.
C10_FailedReadChangesNothing ==
    [][(lastOp'.status = "error"
            /\ lastOp'.name \in {"loadConfig", "bootLoadOrders", "loadOrders",
                                 "loadOrderDetail"}) =>
           /\ state'.config = state.config
           /\ state'.orders = state.orders
           /\ state'.orderDetail = state.orderDetail
           /\ state'.activeOrderId = state.activeOrderId]_vars

\* C11: a tap on minus / plus / fill only sends its request: state, document
\* and pending auto-closes are as before it; and a patch that is rejected
\* (neither ok nor 401) leaves board cache, order detail and document as
\* they were, shows no overlay and schedules no auto-close.
C11_NoOptimisticMutation ==
    [][/\ Issued("patch") =>
              (state' = state /\ dom' = dom /\ timers' = timers
                   /\ closeTimers' = closeTimers)
       /\ (lastOp'.name = "patchLine" /\ lastOp'.status = "error") =>
              (state' = state /\ dom' = dom /\ timers' = timers
                   /\ closeTimers' = closeTimers)]_vars

\* a patch was rejected while its order was open
C11_Witness ==
    /\ lastOp.name = "patchLine" /\ lastOp.status = "error"
    /\ dom.orderView
    /\ state.orderDetail # NoDetail

\* C12: no quantity-patch request is ever sent for a line that the order
\* detail holds as removed, a line removed by a patch response after it was
\* rendered with its controls included.
C12_NoEditOfRemovedLine ==
    [][\A t \in BagToSet(inflight') :
           (t.kind = "patch" /\ CopiesIn(t, inflight') > CopiesIn(t, inflight)) =>
               ~(/\ state.orderDetail # NoDetail
                 /\ \E k \in 1..Len(state.orderDetail[1].lines) :
                        /\ state.orderDetail[1].lines[k].id = t.lineId
                        /\ state.orderDetail[1].lines[k].is_removed)]_vars

\* C13: patch responses are applied in the order they arrive: once a
\* response to an edit of a line has been applied, the copies of that line
\* in the order detail and in the board cache are the line that response
\* carried, whatever other edits of the line are still unanswered.
C13_LastArrivalWins ==
    [][PatchApplied(lastOp') =>
        \E t \in BagToSet(inflight) : \E removed \in BOOLEAN :
            /\ t.kind = "patch" /\ t.lineId = lastOp'.lineId
            /\ inflight' = Settle(t)
            /\ state'.orderDetail # NoDetail =>
                   \A k \in 1..Len(state'.orderDetail[1].lines) :
                       state'.orderDetail[1].lines[k].id = t.lineId =>
                           state'.orderDetail[1].lines[k] = Line(t.lineId, t.qty, removed)
            /\ \A i \in 1..Len(state'.orders) :
                   state'.orders[i].order.id = t.orderId =>
                       \A k \in 1..Len(state'.orders[i].lines) :
                           state'.orders[i].lines[k].id = t.lineId =>
                               state'.orders[i].lines[k] = Line(t.lineId, t.qty, removed)]_vars

\* a response has been applied to both caches while another edit of the
\* same line, submitting a different quantity, is still unanswered
C13_Witness ==
    /\ PatchApplied(lastOp)
    /\ state.orderDetail # NoDetail
    /\ \E t \in BagToSet(inflight) :
           /\ t.kind = "patch" /\ t.lineId = lastOp.lineId
           /\ \E k \in 1..Len(state.orderDetail[1].lines) :
                  /\ state.orderDetail[1].lines[k].id = t.lineId
                  /\ state.orderDetail[1].lines[k].qty_collected # t.qty
           /\ \E i \in 1..Len(state.orders) : \E k \in 1..Len(state.orders[i].lines) :
                  /\ state.orders[i].lines[k].id = t.lineId
                  /\ state.orders[i].lines[k].qty_collected # t.qty

\* C14: when the open notification is answered, with success or with any
\* failure, the detail load for the same order is sent; and a detail load
\* that succeeds puts the session in detail mode for that order (it is the
\* active order, its detail is held, the order view is shown and the board
\* hidden).
C14_OpenFailureNotFatal ==
    [][/\ Answered("open") =>
              \E t \in BagToSet(inflight) :
                  /\ t.kind = "open"
                  /\ inflight' = Settle(t) (+)
                         SetToBag({Task("detail", "card", t.orderId, NULL, 0)})
       /\ (lastOp'.name = "loadOrderDetail" /\ lastOp'.status = "ok") =>
              \E t \in BagToSet(inflight) :
                  /\ t.kind = "detail"
                  /\ inflight' = Settle(t)
                  /\ state'.activeOrderId = t.orderId
                  /\ state'.orderDetail # NoDetail
                  /\ state'.orderDetail[1].order.id = t.orderId
                  /\ dom'.orderView /\ ~dom'.appView]_vars

\* the open notification has failed and the detail load of that order is out
C14_Witness ==
    /\ lastOp.name = "openOrder" /\ lastOp.status = "error"
    /\ \E t \in BagToSet(inflight) : t.kind = "detail" /\ t.orderId = lastOp.orderId
    /\ state.activeOrderId = NULL

\* C15: a completion response that succeeds puts the order record it carries
\* into the order detail and into the board entry with the same order id,
\* and changes no line collection and no other board entry; a completion
\* request that fails leaves both caches as they were.
C15_OrderPatchFrame ==
    [][/\ (lastOp'.name = "completeOrder" /\ lastOp'.status = "ok") =>
              \E v \in CompleteVersions(Small) :
                  LET order == ServerOrder(lastOp'.orderId, v)
                  IN  /\ (state'.orderDetail = NoDetail) <=> (state.orderDetail = NoDetail)
                      /\ state.orderDetail # NoDetail =>
                             /\ state'.orderDetail[1].order = order
                             /\ state'.orderDetail[1].lines = state.orderDetail[1].lines
                      /\ Len(state'.orders) = Len(state.orders)
                      /\ \A k \in 1..Len(state.orders) :
                             /\ state'.orders[k].lines = state.orders[k].lines
                             /\ state'.orders[k].order =
                                    IF state.orders[k].order.id = order.id
                                    THEN order ELSE state.orders[k].order
       /\ (lastOp'.name = "completeOrder" /\ lastOp'.status = "error") =>
              (state'.orders = state.orders /\ state'.orderDetail = state.orderDetail)]_vars

\* C16: the refresh click and the end of bootApp each send the upstream
\* sync; a sync that succeeds is followed by a board list load; a sync that
\* fails (not a 401) sends no load and changes nothing; a board list load
\* that fails (not a 401) outside bootApp changes nothing either, so the
\* board cache keeps its contents.
C16_SyncThenReloadSwallowsFailure ==
    [][/\ (lastOp'.name = "bootLoadOrders" /\ lastOp'.status = "ok") => Issued("sync")
       /\ Issued("sync") => BoardLoads(inflight') <= BoardLoads(inflight)
       /\ (lastOp'.name = "syncNow" /\ lastOp'.status = "ok") =>
              /\ Answered("sync")
              /\ BoardLoads(inflight') = BoardLoads(inflight) + 1
              /\ state' = state /\ dom' = dom /\ timers' = timers
       /\ (lastOp'.name = "syncNow" /\ lastOp'.status = "error") =>
              /\ \E t \in BagToSet(inflight) : t.kind = "sync" /\ inflight' = Settle(t)
              /\ state' = state /\ dom' = dom /\ timers' = timers
       /\ (lastOp'.name = "loadOrders" /\ lastOp'.status = "error") =>
              /\ \E t \in BagToSet(inflight) : t.kind = "orders" /\ inflight' = Settle(t)
              /\ state' = state /\ dom' = dom /\ timers' = timers]_vars

\* a sync has failed on a session whose board is loaded and shown, and no
\* board list load is out
C16_Witness ==
    /\ lastOp.name = "syncNow" /\ lastOp.status = "error"
    /\ state.orders # <<>> /\ dom.appView
    /\ BoardLoads(inflight) = 0

\* C17: an order whose column hint is one of the three columns is put in
\* that column; an order without a valid hint is put in picked when
\* isOrderDone holds of it, in picking when its collected quantity exceeds
\* 1e-9, and in not_started otherwise.
C17_ColumnFallback ==
    call.fn = "getOrderColumn" =>
        call.result =
            IF call.arg.column \in {"picked", "picking", "not_started"} THEN call.arg.column
            ELSE IF isOrderDone(call.arg) THEN "picked"
            ELSE IF Num(call.arg.collected_qty) > 0 THEN "picking"
            ELSE "not_started"

\* C18: isOrderDone is false of every order whose total quantity is 0 (or
\* absent), whatever was collected; of an order with a positive total it is
\* true exactly when the collected quantity is at least the total less 1e-6.
C18_IsOrderDone ==
    call.fn = "isOrderDone" =>
        LET total == IF call.arg.total_qty = Missing THEN 0 ELSE call.arg.total_qty
            collected == IF call.arg.collected_qty = Missing THEN 0
                         ELSE call.arg.collected_qty
        IN  /\ total <= 0 => call.result = FALSE
            /\ total > 0 => (call.result <=> (collected + 10 >= total))

\* an order without total but with a collected quantity is not done
C18_Witness ==
    /\ call.fn = "isOrderDone"
    /\ call.arg.total_qty = 0 /\ call.arg.collected_qty = Unit
    /\ call.result = FALSE

\* C19: isLineDone is true of a line with nothing ordered; otherwise it is
\* true exactly when the collected quantity is at least the ordered one
\* less 1e-6: ordered 10 with 9.9999995 collected is done, with 9.9 it is
\* not.  An absent quantity counts as 0.
C19_IsLineDone ==
    call.fn = "isLineDone" =>
        LET ordered == IF call.arg.qty_ordered = Missing THEN 0 ELSE call.arg.qty_ordered
            collected == IF call.arg.qty_collected = Missing THEN 0
                         ELSE call.arg.qty_collected
        IN  /\ ordered <= 0 => call.result = TRUE
            /\ ordered > 0 => (call.result <=> (collected + 10 >= ordered))
            /\ (ordered = 100000000 /\ collected = 99999995) => call.result = TRUE
            /\ (ordered = 100000000 /\ collected = 99000000) => call.result = FALSE

\* ordered 10, collected 9.9999995: done
C19_Witness ==
    /\ call.fn = "isLineDone"
    /\ call.arg.qty_ordered = 10 * Unit /\ call.arg.qty_collected = 10 * Unit - 5
    /\ call.result = TRUE

\* C20: of a line that was not added, computeDelta is null when the line has
\* no baseline, null when ordered and baseline quantity differ by less than
\* 1e-6, and otherwise the ordered quantity less the baseline (7 against a
\* baseline of 5 gives 2, 5 against 5 gives null).
C20_ComputeDelta ==
    (call.fn = "computeDelta" /\ ~call.arg.is_added) =>
        LET base == call.arg.baseline_qty_ordered
            cur == IF call.arg.qty_ordered = Missing THEN 0 ELSE call.arg.qty_ordered
        IN  /\ base = Missing => call.result = <<>>
            /\ (base # Missing /\ cur - base < 10 /\ base - cur < 10) => call.result = <<>>
            /\ (base # Missing /\ (cur - base >= 10 \/ base - cur >= 10)) =>
                   call.result = <<cur - base>>
            /\ (cur = 70000000 /\ base = 50000000) => call.result = <<20000000>>
            /\ (cur = 50000000 /\ base = 50000000) => call.result = <<>>

\* 7 ordered against a baseline of 5: a delta of 2
C20_Witness ==
    /\ call.fn = "computeDelta" /\ ~call.arg.is_added
    /\ call.arg.qty_ordered = 7 * Unit /\ call.arg.baseline_qty_ordered = 5 * Unit
    /\ call.result = <<2 * Unit>>

\* C21: of a line flagged is_added, computeDelta is the line's ordered
\* quantity (the whole line is new), also when the line carries no baseline:
\* an added line with 4 ordered and no baseline gives 4.
C21_AddedLineDelta ==
    (call.fn = "computeDelta" /\ call.arg.is_added) =>
        call.result = <<IF call.arg.qty_ordered = Missing THEN 0 ELSE call.arg.qty_ordered>>

\* C22: inferStep is 1 for an integral ordered quantity (and for none) and
\* otherwise 10^-d, d being the number of significant fractional digits of
\* the quantity: 1 for 3, 0.1 for 2.5, 0.01 for 1.25.
C22_InferStep ==
    call.fn = "inferStep" =>
        /\ call.result =
               IF call.arg <= 0 \/ call.arg % Unit = 0 THEN Unit
               ELSE Unit \div Pow10(FractionDigits(call.arg % Unit))
        /\ call.arg = 3 * Unit => call.result = Unit
        /\ call.arg = (5 * Unit) \div 2 => call.result = Unit \div 10
        /\ call.arg = (5 * Unit) \div 4 => call.result = Unit \div 100

\* C23: clampAndRound is idempotent: applied to its own result with the same
\* limit (>= 0) and step it returns that result.
C23_ClampAndRoundIdempotent ==
    [][call'.fn = "clampAndRoundAgain" => call'.result = call.result]_vars

\* 2.6 clamped to 2.5 and rounded to whole units gives 3, above the limit,
\* and 3 again when clampAndRound is applied to it
C23_Witness ==
    /\ call.fn = "clampAndRoundAgain"
    /\ call.arg.value = (26 * Unit) \div 10 /\ call.arg.max = (5 * Unit) \div 2
    /\ call.arg.step = Unit
    /\ call.result = 3 * Unit

\* C24: a full render lays out every line of the order detail once, in three
\* contiguous groups in the order incomplete, complete, removed (removed if
\* is_removed, else complete if isLineDone, else incomplete), each group in
\* ascending sort_index.
C24_FullRenderGrouped ==
    call.fn = "renderLines" =>
        LET els == call.result
            lines == call.arg
        IN  /\ Len(els) = Len(lines)
            /\ \A k \in 1..Len(lines) :
                   \E i \in 1..Len(els) :
                       /\ els[i].lineId = lines[k].id
                       /\ els[i].group =
                              IF lines[k].is_removed THEN "removed"
                              ELSE IF lines[k].qty_collected + 10 >= lines[k].qty_ordered
                                   THEN "complete" ELSE "incomplete"
                       /\ els[i].sortIndex =
                              IF lines[k].sort_index = Missing THEN 0 ELSE lines[k].sort_index
            /\ \A i, j \in 1..Len(els) :
                   i < j =>
                       \/ GroupRank(els[i].group) < GroupRank(els[j].group)
                       \/ /\ els[i].group = els[j].group
                          /\ els[i].sortIndex <= els[j].sortIndex

\* the response lists a removed line, a complete one and an incomplete one
\* in that order: they are laid out the other way round
C24_Witness ==
    /\ call.fn = "renderLines"
    /\ call.arg[1].is_removed
    /\ ~call.arg[2].is_removed /\ call.arg[2].qty_collected = Unit
    /\ ~call.arg[3].is_removed /\ call.arg[3].qty_collected = 0
    /\ call.result[1].lineId = 13 /\ call.result[2].lineId = 12
    /\ call.result[3].lineId = 11

\* the element of line `lineId` among the rendered lines, 0 if there is none
ElementOf(els, lineId) == FindIndex(els, LAMBDA e : e.lineId = lineId)

\* C25: when an incremental update changes the group of a line, the line
\* ends up at the end of its new group (after every line of that group and
\* of the groups before it, before every line of the groups after it) and
\* the other rendered lines keep their relative order; a line that just
\* became done lies before every removed line.
C25_RelocatedToGroupEnd ==
    [][PatchApplied(lastOp') =>
        LET i == ElementOf(dom.orderLines, lastOp'.lineId)
            j == ElementOf(dom'.orderLines, lastOp'.lineId)
            els == dom'.orderLines
        IN  (i > 0 /\ dom.orderLines[i].group # els[j].group) =>
                /\ [k \in 1..(Len(els) - 1) |-> RemoveAt(els, j)[k].lineId] =
                       [k \in 1..(Len(els) - 1) |-> RemoveAt(dom.orderLines, i)[k].lineId]
                /\ \A k \in 1..Len(els) :
                       /\ k < j => GroupRank(els[k].group) <= GroupRank(els[j].group)
                       /\ k > j => GroupRank(els[k].group) > GroupRank(els[j].group)
                /\ (~dom.orderLines[i].done /\ els[j].done) =>
                       \A k \in 1..Len(els) : (k # j /\ els[k].group = "removed") => k > j]_vars

\* C26: a line that was done and is decremented below the done threshold
\* reappears in the incomplete group at the position of its sort_index:
\* right before the first incomplete line with a greater sort_index, or at
\* the end of the incomplete group when there is none, and never after a
\* complete or a removed line.
C26_BackToSortPosition ==
    [][PatchApplied(lastOp') =>
        LET i == ElementOf(dom.orderLines, lastOp'.lineId)
            j == ElementOf(dom'.orderLines, lastOp'.lineId)
            els == dom'.orderLines
            greater == {k \in 1..Len(els) :
                            /\ k # j /\ els[k].group = "incomplete"
                            /\ els[k].sortIndex > els[j].sortIndex}
        IN  (i > 0 /\ dom.orderLines[i].group = "complete" /\ els[j].group = "incomplete") =>
                /\ \A k \in 1..(j - 1) : els[k].group = "incomplete"
                /\ IF greater # {}
                   THEN j + 1 \in greater /\ \A k \in greater : k > j
                   ELSE \A k \in 1..Len(els) : els[k].group = "incomplete" => k <= j]_vars

\* C27: the quantity a plus or minus tap submits lies within 0 and the
\* ordered quantity of the tapped line, for every ordered quantity and the
\* step inferStep derives from it.
C27_TapWithinOrdered ==
    call.fn = "tapQty" => (0 <= call.result /\ call.result <= call.arg.ordered)

\* C28: the order detail and the active order id go together: the detail is
\* held exactly when an order is active, and the order it holds is the
\* active one, also after the answer to a patch or a completion of an order
\* that was open before.
C28_DetailMatchesActive ==
    /\ (state.orderDetail = NoDetail) <=> (state.activeOrderId = NULL)
    /\ state.orderDetail # NoDetail =>
           state.orderDetail[1].order.id = state.activeOrderId

\* C29: while the session is torn down (no config: after a logout or a 401
\* and until the next login has loaded it) the board cache is empty and no
\* order detail and no active order id is held, whatever answers arrive to
\* requests that were in flight at the teardown.
C29_TornDownStaysEmpty ==
    state.config = NoConfig =>
        /\ state.orders = <<>>
        /\ state.orderDetail = NoDetail
        /\ state.activeOrderId = NULL

\* C30: while the session is logged out (no config) no poll timer is live.
C30_NoTimerLoggedOut ==
    state.config = NoConfig => (timers = {} /\ state.pollTimer = NULL)

\* C31: whenever the session is logged in (config loaded, bootApp past its
\* board load), the board is shown, no order is open and no open is in
\* progress, a poll timer is live: an open that fails leaves polling on.
C31_BoardModePolls ==
    (/\ state.config # NoConfig
     /\ dom.appView
     /\ state.activeOrderId = NULL
     /\ ~\E t \in BagToSet(inflight) :
            t.kind \in {"open", "detail"} \/ (t.kind = "orders" /\ t.origin = "boot"))
        => (state.pollTimer # NULL /\ state.pollTimer \in timers)

\* C32: the auto-close set by the completion of an order closes that order
\* only: when it fires while a different order is open, that order stays
\* open (the active order id and the order view are as before).
C32_AutoCloseOwnOrderOnly ==
    [][(/\ lastOp'.name = "autoClose"
        /\ closeTimers # <<>>
        /\ state.activeOrderId # NULL
        /\ state.activeOrderId # Head(closeTimers)) =>
           (state'.activeOrderId = state.activeOrderId /\ dom'.orderView)]_vars

\* C33: no tap is lost: when k plus taps have been made on a line, every
\* request was answered with the quantity it submitted and no answer is
\* outstanding, the order detail holds for the line the smaller of the
\* ordered quantity and the initial quantity plus k steps.
C33_NoTapLost ==
    (/\ call.fn = "plus"
     /\ state.orderDetail # NoDetail
     /\ ~\E t \in BagToSet(inflight) : t.kind = "patch") =>
        LET line == state.orderDetail[1].lines[1]
        IN  line.qty_collected =
                Min(line.qty_ordered,
                    call.arg.initial + call.arg.taps * inferStep(line.qty_ordered))

\* C34: after a full render and any number of incremental line updates the
\* rendered lines are three contiguous groups in the order incomplete,
\* complete, removed, and the group marker of every rendered line is the
\* bucket of the line the order detail holds (removed if is_removed, else
\* complete if done, else incomplete).
C34_LayoutStaysGrouped ==
    (dom.orderView /\ state.orderDetail # NoDetail) =>
        LET els == dom.orderLines
            lines == state.orderDetail[1].lines
        IN  /\ \A i, j \in 1..Len(els) :
                   i < j => GroupRank(els[i].group) <= GroupRank(els[j].group)
            /\ \A i \in 1..Len(els) : \A k \in 1..Len(lines) :
                   lines[k].id = els[i].lineId =>
                       els[i].group =
                           IF lines[k].is_removed THEN "removed"
                           ELSE IF lines[k].qty_collected + 10 >= lines[k].qty_ordered
                                THEN "complete" ELSE "incomplete"

====
